---- MODULE Spec2Model ----
(***************************************************************************)
(* micro-bench: the adaptive measurement loop (gather_bench_stats), the     *)
(* statistical reduction (process_stats), the clock calibration            *)
(* (calculate_clock_stats) and the facade (benchmark) of src/microbench.h. *)
(*                                                                         *)
(* Time is in nanoseconds.  The clock is a variable that every call of the *)
(* measured function advances by a nondeterministic amount (the time the   *)
(* loop itself takes is part of these amounts); it stands still for at     *)
(* most MaxStall batches of a run.  The doubles of process_stats are       *)
(* modelled as exact rationals num/den; a value mean + off * sqrt(rad) is  *)
(* kept as the triple (base, off, rad) and compared by sign analysis.      *)
(* TLC's integers are 32 bits wide: the durations of the model are small,  *)
(* and the 1 << 62 sentinel of the source is the corresponding 1 << 30.    *)
(*                                                                         *)
(* Four specifications share the actions:                                  *)
(*   Spec      gather_bench_stats called with any arguments, followed by   *)
(*             process_stats with any runs_mult;                           *)
(*   SpecClock calculate_clock_stats called with any runs > 0;             *)
(*   SpecBench benchmark, through either overload: the two calibrations    *)
(*             (on a clock with one delta per calibration), then           *)
(*             gather_bench_stats and process_stats.  Its time budgets are *)
(*             milliseconds, so measured_fn is called at most              *)
(*             MaxBenchCalls times and one call may last the whole budget. *)
(*   SpecWidth gather_bench_stats called with arguments that pass its      *)
(*             assertions, the sums and products of lines 150-151 being    *)
(*             computed in int64_t scaled to WordBits bits: an overflow    *)
(*             leaves the wrapped value or aborts the run.                 *)
(***************************************************************************)
EXTENDS Integers, Sequences, FiniteSets, TLC

\* ---- bounds of the model ------------------------------------------------
MaxTime      == 4   \* largest max_time_ns
MaxFloor     == 2   \* largest batch_time_ns (noise floor)
MaxMinBatch  == 2   \* largest min_batch_size
MaxEndChecks == 2   \* largest min_end_checks
MaxCallDur   == 2   \* largest clock advance during one call of measured_fn
MaxStall     == 1   \* most batches of duration 0 in one run
MaxRunsMult  == 2   \* largest runs_mult
MaxDelta     == 2   \* largest delta between two consecutive clock reads
MaxRuns      == 4   \* largest runs of a direct call of calculate_clock_stats
MaxMultiple  == 2   \* largest batch_of_clock_accuarcy_multiple
MaxWarmMs    == 2   \* largest warm_up_ms
MaxBenchCalls == 3  \* most calls of measured_fn in one call of benchmark
WordBits     == 5   \* bits of int64_t in the specification with overflow

\* the values clock_ns() may return at line 127
StartTimes == {5}

\* the values of max_time_ms that benchmark is called with
BenchTimesMs == {-1, 0, 2, 45}

\* ---- program constants --------------------------------------------------
MILISECOND_NANOSECONDS == 1000000
MIN_SENTINEL == 1073741824

\* ---- integer helpers ----------------------------------------------------
Abs(x) == IF x < 0 THEN -x ELSE x

\* C++ integer division truncates toward zero
CDiv(a, b) ==
    IF (a >= 0) = (b > 0) THEN Abs(a) \div Abs(b) ELSE -(Abs(a) \div Abs(b))

RECURSIVE GCD(_, _)
GCD(a, b) == IF b = 0 THEN a ELSE GCD(b, a % b)

\* ---- exact rationals (den > 0) standing for the doubles -----------------
Rat(n, d) == [num |-> n, den |-> d]
RatZero == Rat(0, 1)

RatSub(a, b) ==
    LET g == GCD(a.den, b.den)
    IN  Rat(a.num * (b.den \div g) - b.num * (a.den \div g), (a.den \div g) * b.den)

RatLeq(a, b) ==
    LET g == GCD(a.den, b.den)
    IN  a.num * (b.den \div g) <= b.num * (a.den \div g)

RatEq(a, b) == RatLeq(a, b) /\ RatLeq(b, a)

\* base + off * sqrt(rad), rad >= 1
Surd(b, o, r) == [base |-> b, off |-> o, rad |-> r]
SurdZero == Surd(RatZero, RatZero, 1)

\* -1, 0 or 1: the sign of base + off * sqrt(rad)
SurdSign(x) ==
    LET g  == GCD(x.base.den, x.off.den)
        p  == Abs(x.base.num) * (x.off.den \div g)
        q  == Abs(x.off.num) * (x.base.den \div g)
        sb == IF x.base.num > 0 THEN 1 ELSE IF x.base.num < 0 THEN -1 ELSE 0
        so == IF x.off.num > 0 THEN 1 ELSE IF x.off.num < 0 THEN -1 ELSE 0
    IN  IF so = 0 THEN sb
        ELSE IF sb = 0 \/ sb = so THEN so
        ELSE IF p * p > q * q * x.rad THEN sb
        ELSE IF p * p < q * q * x.rad THEN so
        ELSE 0

SurdLeqRat(x, r) == SurdSign(Surd(RatSub(x.base, r), x.off, x.rad)) <= 0
SurdGeqRat(x, r) == SurdSign(Surd(RatSub(x.base, r), x.off, x.rad)) >= 0
SurdEqRat(x, r)  == SurdSign(Surd(RatSub(x.base, r), x.off, x.rad)) = 0

RatOf(n, d) == IF d < 0 THEN Rat(-n, -d) ELSE Rat(n, d)
RatAbs(a) == Rat(Abs(a.num), a.den)
RatDivInt(a, k) == RatOf(a.num, a.den * k)

\* process_stats without adding mean_time_estimate back
ProcessStats_NoAdjust(s, rm) ==
    LET batch_size == s.batch_size * rm
        iters      == batch_size * s.batch_count
        n          == s.batch_count
        sum        == s.time_sum
        sum2       == s.squared_time_sum
        varience_ns == IF n > 1
                       THEN RatDivInt(RatSub(Rat(sum2, 1), Rat(sum * sum, n)), n - 1)
                       ELSE RatZero
        adjusted_time_sum == s.time_sum
        adjutsted_min     == s.min_batch_time
        adjutsted_max     == s.max_batch_time
        mean_ms == IF iters # 0
                   THEN RatOf(adjusted_time_sum, iters * MILISECOND_NANOSECONDS)
                   ELSE RatZero
        min_ms  == IF iters # 0
                   THEN RatOf(adjutsted_min, batch_size * MILISECOND_NANOSECONDS)
                   ELSE RatZero
        max_ms  == IF iters # 0
                   THEN RatOf(adjutsted_max, batch_size * MILISECOND_NANOSECONDS)
                   ELSE RatZero
        rad     == IF batch_size = 0 THEN 1 ELSE batch_size
        raw_min == Surd(mean_ms, RatSub(min_ms, mean_ms), rad)
        res_min == IF SurdSign(raw_min) < 0 THEN SurdZero ELSE raw_min
        res_max == Surd(mean_ms, RatSub(max_ms, mean_ms), rad)
        dev_sq  == RatDivInt(RatAbs(varience_ns), rad)
        failed  ==
               (IF s.min_batch_time * s.batch_count <= s.time_sum THEN {} ELSE {210})
          \cup (IF s.max_batch_time * s.batch_count >= s.time_sum THEN {} ELSE {211})
          \cup (IF adjutsted_min * s.batch_count <= adjusted_time_sum THEN {} ELSE {241})
          \cup (IF adjutsted_max * s.batch_count >= adjusted_time_sum THEN {} ELSE {242})
          \cup (IF mean_ms.num >= 0 /\ min_ms.num >= 0 /\ max_ms.num >= 0 THEN {} ELSE {250})
          \cup (IF iters >= 0 THEN {} ELSE {290})
          \cup (IF batch_size >= 0 THEN {} ELSE {291})
          \cup (IF SurdSign(res_min) >= 0 THEN {} ELSE {292})
          \cup (IF SurdSign(res_max) >= 0 THEN {} ELSE {293})
          \cup (IF mean_ms.num >= 0 THEN {} ELSE {294})
          \cup (IF dev_sq.num >= 0 THEN {} ELSE {295})
          \cup (IF SurdLeqRat(res_min, mean_ms) /\ SurdGeqRat(res_max, mean_ms)
                THEN {} ELSE {296})
    IN  [mean_ms      |-> mean_ms,
         deviation_sq |-> dev_sq,
         min_ms       |-> res_min,
         max_ms       |-> res_max,
         batch_size   |-> batch_size,
         iters        |-> iters,
         failed       |-> failed]

\* ---- process_stats ------------------------------------------------------
\* Bench_Result.  mean_ms, min_ms and max_ms are in milliseconds;
\* deviation_ms = sqrt(deviation_sq) / MILISECOND_NANOSECONDS;
\* failed = the lines of the assertions that do not hold.
ProcessStats(s, rm) ==
    LET batch_size == s.batch_size * rm
        iters      == batch_size * s.batch_count
        n          == s.batch_count
        sum        == s.time_sum
        sum2       == s.squared_time_sum
        varience_ns == IF n > 1
                       THEN RatDivInt(RatSub(Rat(sum2, 1), Rat(sum * sum, n)), n - 1)
                       ELSE RatZero
        adjusted_time_sum == s.time_sum + s.mean_time_estimate * s.batch_count
        adjutsted_min     == s.min_batch_time + s.mean_time_estimate
        adjutsted_max     == s.max_batch_time + s.mean_time_estimate
        mean_ms == IF iters # 0
                   THEN RatOf(adjusted_time_sum, iters * MILISECOND_NANOSECONDS)
                   ELSE RatZero
        min_ms  == IF iters # 0
                   THEN RatOf(adjutsted_min, batch_size * MILISECOND_NANOSECONDS)
                   ELSE RatZero
        max_ms  == IF iters # 0
                   THEN RatOf(adjutsted_max, batch_size * MILISECOND_NANOSECONDS)
                   ELSE RatZero
        rad     == IF batch_size = 0 THEN 1 ELSE batch_size
        raw_min == Surd(mean_ms, RatSub(min_ms, mean_ms), rad)
        res_min == IF SurdSign(raw_min) < 0 THEN SurdZero ELSE raw_min
        res_max == Surd(mean_ms, RatSub(max_ms, mean_ms), rad)
        dev_sq  == RatDivInt(RatAbs(varience_ns), rad)
        failed  ==
               (IF s.min_batch_time * s.batch_count <= s.time_sum THEN {} ELSE {210})
          \cup (IF s.max_batch_time * s.batch_count >= s.time_sum THEN {} ELSE {211})
          \cup (IF adjutsted_min * s.batch_count <= adjusted_time_sum THEN {} ELSE {241})
          \cup (IF adjutsted_max * s.batch_count >= adjusted_time_sum THEN {} ELSE {242})
          \cup (IF mean_ms.num >= 0 /\ min_ms.num >= 0 /\ max_ms.num >= 0 THEN {} ELSE {250})
          \cup (IF iters >= 0 THEN {} ELSE {290})
          \cup (IF batch_size >= 0 THEN {} ELSE {291})
          \cup (IF SurdSign(res_min) >= 0 THEN {} ELSE {292})
          \cup (IF SurdSign(res_max) >= 0 THEN {} ELSE {293})
          \cup (IF mean_ms.num >= 0 THEN {} ELSE {294})
          \cup (IF dev_sq.num >= 0 THEN {} ELSE {295})
          \cup (IF SurdLeqRat(res_min, mean_ms) /\ SurdGeqRat(res_max, mean_ms)
                THEN {} ELSE {296})
    IN  [mean_ms      |-> mean_ms,
         deviation_sq |-> dev_sq,
         min_ms       |-> res_min,
         max_ms       |-> res_max,
         batch_size   |-> batch_size,
         iters        |-> iters,
         failed       |-> failed]

\* Bench_Result's default member initialisers
NoResult ==
    [mean_ms |-> RatZero, deviation_sq |-> RatZero, min_ms |-> SurdZero,
     max_ms |-> SurdZero, batch_size |-> 0, iters |-> 0, failed |-> {}]

\* ---- gather_bench_stats -------------------------------------------------
\* Bench_Stats's default member initialisers
NoStats ==
    [batch_count |-> 0, batch_size |-> 0, time_sum |-> 0, squared_time_sum |-> 0,
     min_batch_time |-> 0, max_batch_time |-> 0, mean_time_estimate |-> 0]

\* lines 110-111: a noise floor <= 0 is replaced by 1
ClampFloor(f) == IF f <= 0 THEN 1 ELSE f

\* FirstDeadline without lines 114-115
FirstDeadline_NoFallback(warm_up, max_time) == warm_up

\* lines 113-115: the first deadline
FirstDeadline(warm_up, max_time) ==
    IF warm_up > max_time \/ warm_up <= 0 THEN max_time ELSE warm_up

\* lines 117-125
InitialStats(mbs) ==
    [batch_count |-> 0, batch_size |-> mbs, time_sum |-> 0, squared_time_sum |-> 0,
     min_batch_time |-> MIN_SENTINEL, max_batch_time |-> 0, mean_time_estimate |-> 0]

\* Accumulate with min and max taken over the batch times, not over the deltas
Accumulate_AbsoluteMinMax(s, batch_time) ==
    LET delta == batch_time - s.mean_time_estimate
    IN  [s EXCEPT !.time_sum         = @ + delta,
                  !.squared_time_sum = @ + delta * delta,
                  !.batch_count      = @ + 1,
                  !.min_batch_time   = IF @ > batch_time THEN batch_time ELSE @,
                  !.max_batch_time   = IF @ < batch_time THEN batch_time ELSE @]

\* Accumulate with the square of the batch time, not of the delta
Accumulate_SquareOfTime(s, batch_time) ==
    LET delta == batch_time - s.mean_time_estimate
    IN  [s EXCEPT !.time_sum         = @ + delta,
                  !.squared_time_sum = @ + batch_time * batch_time,
                  !.batch_count      = @ + 1,
                  !.min_batch_time   = IF @ > delta THEN delta ELSE @,
                  !.max_batch_time   = IF @ < delta THEN delta ELSE @]

\* Accumulate with delta in place of delta * delta
Accumulate_NoSquare(s, batch_time) ==
    LET delta == batch_time - s.mean_time_estimate
    IN  [s EXCEPT !.time_sum         = @ + delta,
                  !.squared_time_sum = @ + delta,
                  !.batch_count      = @ + 1,
                  !.min_batch_time   = IF @ > delta THEN delta ELSE @,
                  !.max_batch_time   = IF @ < delta THEN delta ELSE @]

\* lines 149-158: a kept batch of duration batch_time
Accumulate(s, batch_time) ==
    LET delta == batch_time - s.mean_time_estimate
    IN  [s EXCEPT !.time_sum         = @ + delta,
                  !.squared_time_sum = @ + delta * delta,
                  !.batch_count      = @ + 1,
                  !.min_batch_time   = IF @ > delta THEN delta ELSE @,
                  !.max_batch_time   = IF @ < delta THEN delta ELSE @]

\* int64_t scaled to WordBits bits, as the nanoseconds are scaled to ticks
IntMin == -(2 ^ (WordBits - 1))
IntMax == 2 ^ (WordBits - 1) - 1

\* x is a value of the integer type
Fits(x) == IntMin <= x /\ x <= IntMax

\* the two's complement value that an overflowing operation leaves
Wrap(x) == ((x - IntMin) % (2 ^ WordBits)) + IntMin

\* lines 150-151 overflow for a kept batch of duration batch_time
Overflows(s, batch_time) ==
    LET delta == batch_time - s.mean_time_estimate
    IN  \/ ~Fits(s.time_sum + delta)
        \/ ~Fits(delta * delta)
        \/ ~Fits(s.squared_time_sum + Wrap(delta * delta))

\* lines 149-158 in the integer type: sums and products wrap around
AccumulateWrapping(s, batch_time) ==
    LET delta == batch_time - s.mean_time_estimate
    IN  [s EXCEPT !.time_sum         = Wrap(@ + delta),
                  !.squared_time_sum = Wrap(@ + Wrap(delta * delta)),
                  !.batch_count      = @ + 1,
                  !.min_batch_time   = IF @ > delta THEN delta ELSE @,
                  !.max_batch_time   = IF @ < delta THEN delta ELSE @]

\* CheckpointIters without lines 172-173
CheckpointIters_NoClamp(s) == s.batch_count * s.batch_size

\* lines 171-173
CheckpointIters(s) ==
    LET iters == s.batch_count * s.batch_size
    IN  IF iters <= 0 THEN 1 ELSE iters

\* NumChecks with remaining * floor in place of remaining / floor
NumChecks_Times(remaining, floor, mec) ==
    LET num_checks == remaining * floor
    IN  IF num_checks < mec THEN mec ELSE num_checks

\* lines 177-180
NumChecks(remaining, floor, mec) ==
    LET num_checks == CDiv(remaining, floor)
    IN  IF num_checks < mec THEN mec ELSE num_checks

\* lines 184-186
CheckpointDen(total, num_checks) ==
    LET den == total * num_checks
    IN  IF den <= 0 THEN 1 ELSE den

\* ResizedBatchSize without lines 189-190
ResizedBatchSize_NoClamp(s, total, max_time, floor, mbs, mec) ==
    LET iters      == CheckpointIters(s)
        remaining  == max_time - total
        num_checks == NumChecks(remaining, floor, mec)
        den        == CheckpointDen(total, num_checks)
    IN  CDiv(iters * remaining, den)

\* lines 177-190: the batch size chosen at the checkpoint
ResizedBatchSize(s, total, max_time, floor, mbs, mec) ==
    LET iters      == CheckpointIters(s)
        remaining  == max_time - total
        num_checks == NumChecks(remaining, floor, mec)
        den        == CheckpointDen(total, num_checks)
        bs         == CDiv(iters * remaining, den)
    IN  IF bs < mbs THEN mbs ELSE bs

\* Checkpoint without line 193
Checkpoint_KeepCount(s, total, max_time, floor, mbs, mec) ==
    [batch_count        |-> s.batch_count,
     batch_size         |-> ResizedBatchSize(s, total, max_time, floor, mbs, mec),
     time_sum           |-> 0,
     squared_time_sum   |-> 0,
     min_batch_time     |-> MIN_SENTINEL,
     max_batch_time     |-> 0,
     mean_time_estimate |-> CDiv(s.time_sum, CheckpointIters(s))]

\* Checkpoint without line 194
Checkpoint_KeepSum(s, total, max_time, floor, mbs, mec) ==
    [batch_count        |-> 0,
     batch_size         |-> ResizedBatchSize(s, total, max_time, floor, mbs, mec),
     time_sum           |-> s.time_sum,
     squared_time_sum   |-> 0,
     min_batch_time     |-> MIN_SENTINEL,
     max_batch_time     |-> 0,
     mean_time_estimate |-> CDiv(s.time_sum, CheckpointIters(s))]

\* Checkpoint with the estimate per batch, not per call
Checkpoint_EstimatePerBatch(s, total, max_time, floor, mbs, mec) ==
    [batch_count        |-> 0,
     batch_size         |-> ResizedBatchSize(s, total, max_time, floor, mbs, mec),
     time_sum           |-> 0,
     squared_time_sum   |-> 0,
     min_batch_time     |-> MIN_SENTINEL,
     max_batch_time     |-> 0,
     mean_time_estimate |-> CDiv(s.time_sum, IF s.batch_count <= 0 THEN 1
                                                                   ELSE s.batch_count)]

\* lines 171-197: the statistics after the checkpoint
Checkpoint(s, total, max_time, floor, mbs, mec) ==
    [batch_count        |-> 0,
     batch_size         |-> ResizedBatchSize(s, total, max_time, floor, mbs, mec),
     time_sum           |-> 0,
     squared_time_sum   |-> 0,
     min_batch_time     |-> MIN_SENTINEL,
     max_batch_time     |-> 0,
     mean_time_estimate |-> CDiv(s.time_sum, CheckpointIters(s))]

\* ---- calculate_clock_stats ----------------------------------------------
\* Clock_Stats's default member initialisers
NoClockStats == [average |-> 0, min |-> 0, max |-> 0]

\* lines 312-314
InitialClockStats == [average |-> 0, min |-> MIN_SENTINEL, max |-> -MIN_SENTINEL]

\* lines 324-328: one delta between two consecutive clock reads
ClockAccumulate(cs, diff) ==
    [cs EXCEPT !.min = IF diff < @ THEN diff ELSE @,
               !.max = IF diff > @ THEN diff ELSE @]

\* ClockAverage without the replacement of 0 by 1
ClockAverage_MayBeZero(total, n) == CDiv(total, n)

\* ClockAverage with the increment of line 333 made in every case
ClockAverage_AlwaysIncrement(total, n) == CDiv(total, n) + 1

\* lines 331-333
ClockAverage(total, n) ==
    LET average == CDiv(total, n)
    IN  IF average = 0 THEN average + 1 ELSE average

\* ---- the state ----------------------------------------------------------
VARIABLES
    pc,              \* "start", "calls", "measure", "check", "done", "processed", "abort"
    max_time_ns, warm_up_ns, batch_time_ns, min_batch_size, min_end_checks,
    runs_mult,       \* the argument of process_stats
    clk,             \* what clock_ns() returns now
    start, from, to_time,
    stats,           \* Bench_Stats
    i, reject,       \* the inner loop of lines 131-133
    batch_time, total_time,
    result,          \* Bench_Result
    \* history variables: they record the run and are never read by it
    any_false,       \* a call of the current batch returned false
    fn_hist,         \* "none", "keep", "reject" or "mixed": what the calls returned so far
    call_cost,       \* -1: no call yet; c: every call took c ns; -2: the calls differ
    kept_lo, kept_hi,\* smallest and largest duration of the batches in stats
    kept_warm,       \* how many batches in stats ended at a total time <= warm_up_ns
    stall,           \* batches of duration 0 so far
    ncalls,          \* calls of measured_fn made so far by a call of benchmark
    kept_calls,      \* calls of measured_fn made in the batches in stats
    kept_time,       \* summed duration of the batches in stats
    all_time,        \* summed duration of all batches since line 127
    checkpoints,     \* how often lines 167-198 ran
    \* benchmark and calculate_clock_stats
    max_time_ms, warm_up_ms, batch_of_clock_accuarcy_multiple,
    runs, ci, sum,   \* calculate_clock_stats: its argument, its i and its sum
    cstats,          \* calculate_clock_stats: its Clock_Stats stats
    clock_stats,     \* benchmark: the Clock_Stats it keeps
    calib,           \* 0: outside benchmark; 1, 2: the calibration benchmark reached
    tick,            \* -1: every clock delta is free; d: every clock delta is d
    \* history variables of the calibration
    first_average,   \* the average returned by the first calibration of benchmark
    d_lo, d_hi,      \* smallest and largest delta of this calculate_clock_stats
    d_sum            \* sum of the deltas of this calculate_clock_stats

vars == <<pc, max_time_ns, warm_up_ns, batch_time_ns, min_batch_size, min_end_checks,
          runs_mult, clk, start, from, to_time, stats, i, reject, batch_time,
          total_time, result, any_false, fn_hist, call_cost,
          kept_lo, kept_hi, kept_warm, stall, ncalls, kept_calls, kept_time, all_time,
          checkpoints,
          max_time_ms, warm_up_ms, batch_of_clock_accuarcy_multiple, runs, ci, sum,
          cstats, clock_stats, calib, tick, first_average, d_lo, d_hi, d_sum>>

params == <<max_time_ns, warm_up_ns, min_batch_size, min_end_checks>>
hist   == <<any_false, fn_hist, call_cost, kept_lo, kept_hi, kept_warm, stall,
            ncalls, kept_calls, kept_time, all_time, checkpoints>>
bench  == <<max_time_ms, warm_up_ms, batch_of_clock_accuarcy_multiple, runs, ci, sum,
            cstats, clock_stats, calib, tick, first_average, d_lo, d_hi, d_sum>>
clock  == <<runs, ci, sum, cstats, tick, d_lo, d_hi, d_sum>>
gather == <<max_time_ns, warm_up_ns, batch_time_ns, min_batch_size, min_end_checks,
            start, from, to_time, stats, i, reject, batch_time, total_time, result>>

\* the locals of gather_bench_stats and its history before it is called
NoRun ==
    /\ start = 0 /\ from = 0 /\ to_time = 0
    /\ stats = NoStats
    /\ i = 0 /\ reject = 0
    /\ batch_time = 0 /\ total_time = 0
    /\ result = NoResult
    /\ any_false = FALSE
    /\ fn_hist = "none"
    /\ call_cost = -1
    /\ kept_lo = 0 /\ kept_hi = 0 /\ kept_warm = 0
    /\ stall = 0
    /\ ncalls = 0 /\ kept_calls = 0
    /\ kept_time = 0 /\ all_time = 0 /\ checkpoints = 0

\* the locals of calculate_clock_stats before it is called
NoClock ==
    /\ runs = 0 /\ ci = 0 /\ sum = 0
    /\ cstats = NoClockStats
    /\ d_lo = 0 /\ d_hi = 0 /\ d_sum = 0

\* benchmark is not called
NoBench ==
    /\ max_time_ms = 0 /\ warm_up_ms = 0 /\ batch_of_clock_accuarcy_multiple = 0
    /\ clock_stats = NoClockStats
    /\ calib = 0
    /\ first_average = 0

\* gather_bench_stats is called with any arguments, process_stats follows;
\* of the two arguments that only the checkpoint reads, the noise floor and
\* min_end_checks, the values up to 1 and the largest one are drawn
Init ==
    /\ pc = "start"
    /\ max_time_ns    \in -1..MaxTime
    /\ warm_up_ns     \in -1..MaxTime
    /\ batch_time_ns  \in {-1, 0, 1, MaxFloor}
    /\ min_batch_size \in 0..MaxMinBatch
    /\ min_end_checks \in {0, 1, MaxEndChecks}
    /\ clk \in StartTimes
    /\ runs_mult = 1
    /\ NoRun
    /\ NoClock /\ tick = -1
    /\ NoBench

\* lines 106-108: the assertions at the entry of gather_bench_stats
Preconditions == min_end_checks > 0 /\ min_batch_size > 0 /\ max_time_ns >= 0

\* lines 106-108 with an assertion that fails
Abort ==
    /\ pc = "start"
    /\ ~Preconditions
    /\ pc' = "abort"
    /\ UNCHANGED <<bench, params, batch_time_ns, runs_mult, clk, start, from, to_time, stats,
                   i, reject, batch_time, total_time, result, hist>>

\* lines 106-128
Start ==
    /\ pc = "start"
    /\ Preconditions
    /\ batch_time_ns' = ClampFloor(batch_time_ns)
    /\ to_time' = FirstDeadline(warm_up_ns, max_time_ns)
    /\ stats' = InitialStats(min_batch_size)
    /\ start' = clk
    /\ from' = clk
    /\ i' = 0 /\ reject' = 0
    /\ pc' = "calls"
    /\ UNCHANGED <<bench, params, runs_mult, clk, batch_time, total_time, result, hist>>

\* the clock advances during one call of measured_fn: a few nanoseconds or,
\* within benchmark, the whole time budget (such a call returns false: the
\* square of a kept batch of this length is outside TLC's integers)
CallDurations ==
    0..MaxCallDur \cup (IF calib = 2 /\ max_time_ns > MaxCallDur THEN {max_time_ns} ELSE {})

\* Call with reject &= in place of reject |=
Call_AndReject ==
    /\ pc = "calls"
    /\ i < stats.batch_size
    /\ calib = 2 => ncalls < MaxBenchCalls
    /\ \E keep \in BOOLEAN, d \in CallDurations :
        /\ d > MaxCallDur => ~keep
        /\ (i + 1 = stats.batch_size /\ clk = from /\ stall >= MaxStall) => d > 0
        /\ reject' = (IF reject # 0 /\ ~keep THEN 1 ELSE 0)
        /\ clk' = clk + d
        /\ any_false' = (any_false \/ ~keep)
        /\ fn_hist' = (IF fn_hist = "none" THEN (IF keep THEN "keep" ELSE "reject")
                       ELSE IF fn_hist = "keep" /\ keep THEN "keep"
                       ELSE IF fn_hist = "reject" /\ ~keep THEN "reject"
                       ELSE "mixed")
        /\ call_cost' = (IF call_cost = -1 \/ call_cost = d THEN d ELSE -2)
        /\ ncalls' = (IF calib = 2 THEN ncalls + 1 ELSE ncalls)
    /\ i' = i + 1
    /\ pc' = (IF i + 1 < stats.batch_size THEN "calls" ELSE "measure")
    /\ UNCHANGED <<bench, params, batch_time_ns, runs_mult, start, from, to_time, stats,
                   batch_time, total_time, result, kept_lo, kept_hi, kept_warm, stall,
                   kept_calls, kept_time, all_time, checkpoints>>

\* Call that leaves the inner loop at the first false
Call_ShortCut ==
    /\ pc = "calls"
    /\ i < stats.batch_size
    /\ calib = 2 => ncalls < MaxBenchCalls
    /\ \E keep \in BOOLEAN, d \in CallDurations :
        /\ d > MaxCallDur => ~keep
        /\ (i + 1 = stats.batch_size /\ clk = from /\ stall >= MaxStall) => d > 0
        /\ reject' = (IF reject # 0 \/ ~keep THEN 1 ELSE 0)
        /\ clk' = clk + d
        /\ any_false' = (any_false \/ ~keep)
        /\ fn_hist' = (IF fn_hist = "none" THEN (IF keep THEN "keep" ELSE "reject")
                       ELSE IF fn_hist = "keep" /\ keep THEN "keep"
                       ELSE IF fn_hist = "reject" /\ ~keep THEN "reject"
                       ELSE "mixed")
        /\ call_cost' = (IF call_cost = -1 \/ call_cost = d THEN d ELSE -2)
        /\ ncalls' = (IF calib = 2 THEN ncalls + 1 ELSE ncalls)
        /\ pc' = (IF i + 1 < stats.batch_size /\ keep THEN "calls" ELSE "measure")
    /\ i' = i + 1
    /\ UNCHANGED <<bench, params, batch_time_ns, runs_mult, start, from, to_time, stats,
                   batch_time, total_time, result, kept_lo, kept_hi, kept_warm, stall,
                   kept_calls, kept_time, all_time, checkpoints>>

\* lines 132-133: one call of measured_fn, which returns keep and takes d ns
Call ==
    /\ pc = "calls"
    /\ i < stats.batch_size
    /\ calib = 2 => ncalls < MaxBenchCalls
    /\ \E keep \in BOOLEAN, d \in CallDurations :
        /\ d > MaxCallDur => ~keep
        /\ (i + 1 = stats.batch_size /\ clk = from /\ stall >= MaxStall) => d > 0
        /\ reject' = (IF reject # 0 \/ ~keep THEN 1 ELSE 0)
        /\ clk' = clk + d
        /\ any_false' = (any_false \/ ~keep)
        /\ fn_hist' = (IF fn_hist = "none" THEN (IF keep THEN "keep" ELSE "reject")
                       ELSE IF fn_hist = "keep" /\ keep THEN "keep"
                       ELSE IF fn_hist = "reject" /\ ~keep THEN "reject"
                       ELSE "mixed")
        /\ call_cost' = (IF call_cost = -1 \/ call_cost = d THEN d ELSE -2)
        /\ ncalls' = (IF calib = 2 THEN ncalls + 1 ELSE ncalls)
    /\ i' = i + 1
    /\ pc' = (IF i + 1 < stats.batch_size THEN "calls" ELSE "measure")
    /\ UNCHANGED <<bench, params, batch_time_ns, runs_mult, start, from, to_time, stats,
                   batch_time, total_time, result, kept_lo, kept_hi, kept_warm, stall,
                   kept_calls, kept_time, all_time, checkpoints>>

\* Measure that accumulates the rejected batches too
Measure_KeepAll ==
    /\ pc = "measure"
    /\ LET now == clk
           bt  == now - from
           tt  == now - start
       IN  /\ batch_time' = bt
           /\ total_time' = tt
           /\ from' = now
           /\ stats' = Accumulate(stats, bt)
           /\ kept_lo' = (IF stats.batch_count = 0 \/ bt < kept_lo THEN bt ELSE kept_lo)
           /\ kept_hi' = (IF stats.batch_count = 0 \/ bt > kept_hi THEN bt ELSE kept_hi)
           /\ kept_warm' = (IF tt <= warm_up_ns THEN kept_warm + 1 ELSE kept_warm)
           /\ stall' = (IF bt = 0 THEN stall + 1 ELSE stall)
           /\ kept_calls' = kept_calls + i
           /\ kept_time' = kept_time + bt
           /\ all_time' = all_time + bt
    /\ pc' = "check"
    /\ UNCHANGED <<bench, params, batch_time_ns, runs_mult, clk, start, to_time, i, reject,
                   result, any_false, fn_hist, call_cost, ncalls, checkpoints>>

\* Measure with the total time taken from the last clock read, not from start
Measure_TotalFromLast ==
    /\ pc = "measure"
    /\ LET now == clk
           bt  == now - from
           tt  == now - from
       IN  /\ batch_time' = bt
           /\ total_time' = tt
           /\ from' = now
           /\ stats' = (IF reject = 0 THEN Accumulate(stats, bt) ELSE stats)
           /\ kept_lo' = (IF reject # 0 THEN kept_lo
                          ELSE IF stats.batch_count = 0 \/ bt < kept_lo THEN bt ELSE kept_lo)
           /\ kept_hi' = (IF reject # 0 THEN kept_hi
                          ELSE IF stats.batch_count = 0 \/ bt > kept_hi THEN bt ELSE kept_hi)
           /\ kept_warm' = (IF reject = 0 /\ tt <= warm_up_ns THEN kept_warm + 1
                            ELSE kept_warm)
           /\ stall' = (IF bt = 0 THEN stall + 1 ELSE stall)
           /\ kept_calls' = (IF reject = 0 THEN kept_calls + i ELSE kept_calls)
           /\ kept_time' = (IF reject = 0 THEN kept_time + bt ELSE kept_time)
           /\ all_time' = all_time + bt
    /\ pc' = "check"
    /\ UNCHANGED <<bench, params, batch_time_ns, runs_mult, clk, start, to_time, i, reject,
                   result, any_false, fn_hist, call_cost, ncalls, checkpoints>>

\* Measure without line 138
Measure_FromNotAdvanced ==
    /\ pc = "measure"
    /\ LET now == clk
           bt  == now - from
           tt  == now - start
       IN  /\ batch_time' = bt
           /\ total_time' = tt
           /\ from' = from
           /\ stats' = (IF reject = 0 THEN Accumulate(stats, bt) ELSE stats)
           /\ kept_lo' = (IF reject # 0 THEN kept_lo
                          ELSE IF stats.batch_count = 0 \/ bt < kept_lo THEN bt ELSE kept_lo)
           /\ kept_hi' = (IF reject # 0 THEN kept_hi
                          ELSE IF stats.batch_count = 0 \/ bt > kept_hi THEN bt ELSE kept_hi)
           /\ kept_warm' = (IF reject = 0 /\ tt <= warm_up_ns THEN kept_warm + 1
                            ELSE kept_warm)
           /\ stall' = (IF bt = 0 THEN stall + 1 ELSE stall)
           /\ kept_calls' = (IF reject = 0 THEN kept_calls + i ELSE kept_calls)
           /\ kept_time' = (IF reject = 0 THEN kept_time + bt ELSE kept_time)
           /\ all_time' = all_time + bt
    /\ pc' = "check"
    /\ UNCHANGED <<bench, params, batch_time_ns, runs_mult, clk, start, to_time, i, reject,
                   result, any_false, fn_hist, call_cost, ncalls, checkpoints>>

\* Measure with the test of line 164 ahead of lines 140-159
Measure_DeadlineFirst ==
    /\ pc = "measure"
    /\ LET now == clk
           bt  == now - from
           tt  == now - start
       IN  /\ batch_time' = bt
           /\ total_time' = tt
           /\ from' = now
           /\ stats' = (IF reject = 0 /\ ~(tt > max_time_ns) THEN Accumulate(stats, bt)
                        ELSE stats)
           /\ kept_lo' = (IF reject # 0 THEN kept_lo
                          ELSE IF stats.batch_count = 0 \/ bt < kept_lo THEN bt ELSE kept_lo)
           /\ kept_hi' = (IF reject # 0 THEN kept_hi
                          ELSE IF stats.batch_count = 0 \/ bt > kept_hi THEN bt ELSE kept_hi)
           /\ kept_warm' = (IF reject = 0 /\ tt <= warm_up_ns THEN kept_warm + 1
                            ELSE kept_warm)
           /\ stall' = (IF bt = 0 THEN stall + 1 ELSE stall)
           /\ kept_calls' = (IF reject = 0 THEN kept_calls + i ELSE kept_calls)
           /\ kept_time' = (IF reject = 0 THEN kept_time + bt ELSE kept_time)
           /\ all_time' = all_time + bt
    /\ pc' = "check"
    /\ UNCHANGED <<bench, params, batch_time_ns, runs_mult, clk, start, to_time, i, reject,
                   result, any_false, fn_hist, call_cost, ncalls, checkpoints>>

\* lines 135-159: the clock is read and a batch that is not rejected is accumulated
Measure ==
    /\ pc = "measure"
    /\ LET now == clk
           bt  == now - from
           tt  == now - start
       IN  /\ batch_time' = bt
           /\ total_time' = tt
           /\ from' = now
           /\ stats' = (IF reject = 0 THEN Accumulate(stats, bt) ELSE stats)
           /\ kept_lo' = (IF reject # 0 THEN kept_lo
                          ELSE IF stats.batch_count = 0 \/ bt < kept_lo THEN bt ELSE kept_lo)
           /\ kept_hi' = (IF reject # 0 THEN kept_hi
                          ELSE IF stats.batch_count = 0 \/ bt > kept_hi THEN bt ELSE kept_hi)
           /\ kept_warm' = (IF reject = 0 /\ tt <= warm_up_ns THEN kept_warm + 1
                            ELSE kept_warm)
           /\ stall' = (IF bt = 0 THEN stall + 1 ELSE stall)
           /\ kept_calls' = (IF reject = 0 THEN kept_calls + i ELSE kept_calls)
           /\ kept_time' = (IF reject = 0 THEN kept_time + bt ELSE kept_time)
           /\ all_time' = all_time + bt
    /\ pc' = "check"
    /\ UNCHANGED <<bench, params, batch_time_ns, runs_mult, clk, start, to_time, i, reject,
                   result, any_false, fn_hist, call_cost, ncalls, checkpoints>>

\* lines 135-159 in the integer type.  Signed overflow is undefined: a build
\* either leaves the wrapped value or, when it traps on overflow, aborts
MeasureWrapping ==
    /\ pc = "measure"
    /\ LET now == clk
           bt  == now - from
           tt  == now - start
       IN  /\ batch_time' = bt
           /\ total_time' = tt
           /\ from' = now
           /\ stats' = (IF reject = 0 THEN AccumulateWrapping(stats, bt) ELSE stats)
           /\ pc' \in (IF reject = 0 /\ Overflows(stats, bt) THEN {"check", "abort"}
                       ELSE {"check"})
           /\ kept_lo' = (IF reject # 0 THEN kept_lo
                          ELSE IF stats.batch_count = 0 \/ bt < kept_lo THEN bt ELSE kept_lo)
           /\ kept_hi' = (IF reject # 0 THEN kept_hi
                          ELSE IF stats.batch_count = 0 \/ bt > kept_hi THEN bt ELSE kept_hi)
           /\ kept_warm' = (IF reject = 0 /\ tt <= warm_up_ns THEN kept_warm + 1
                            ELSE kept_warm)
           /\ stall' = (IF bt = 0 THEN stall + 1 ELSE stall)
           /\ kept_calls' = (IF reject = 0 THEN kept_calls + i ELSE kept_calls)
           /\ kept_time' = (IF reject = 0 THEN kept_time + bt ELSE kept_time)
           /\ all_time' = all_time + bt
    /\ UNCHANGED <<bench, params, batch_time_ns, runs_mult, clk, start, to_time, i, reject,
                   result, any_false, fn_hist, call_cost, ncalls, checkpoints>>

\* line 129: the next iteration of while(true) begins
NextBatch ==
    /\ i' = 0
    /\ reject' = 0
    /\ any_false' = FALSE
    /\ pc' = "calls"

\* line 161 false: no deadline is passed
Continue ==
    /\ pc = "check"
    /\ ~(total_time > to_time)
    /\ NextBatch
    /\ UNCHANGED <<bench, params, batch_time_ns, runs_mult, clk, start, from, to_time, stats,
                   batch_time, total_time, result, fn_hist, call_cost,
                   kept_lo, kept_hi, kept_warm, stall, ncalls, kept_calls, kept_time,
                   all_time, checkpoints>>

\* Finish with >= max_time_ns in place of > max_time_ns
Finish_AtDeadline ==
    /\ pc = "check"
    /\ total_time > to_time
    /\ total_time >= max_time_ns
    /\ pc' = "done"
    /\ UNCHANGED <<bench, params, batch_time_ns, runs_mult, clk, start, from, to_time, stats,
                   i, reject, batch_time, total_time, result, hist>>

\* lines 161-165: the loop is left
Finish ==
    /\ pc = "check"
    /\ total_time > to_time
    /\ total_time > max_time_ns
    /\ pc' = "done"
    /\ UNCHANGED <<bench, params, batch_time_ns, runs_mult, clk, start, from, to_time, stats,
                   i, reject, batch_time, total_time, result, hist>>

\* Resize without line 198
Resize_KeepDeadline ==
    /\ pc = "check"
    /\ total_time > to_time
    /\ ~(total_time > max_time_ns)
    /\ stats' = Checkpoint(stats, total_time, max_time_ns, batch_time_ns,
                           min_batch_size, min_end_checks)
    /\ kept_lo' = 0 /\ kept_hi' = 0 /\ kept_warm' = 0
    /\ kept_calls' = 0 /\ kept_time' = 0
    /\ checkpoints' = checkpoints + 1
    /\ NextBatch
    /\ UNCHANGED <<bench, params, batch_time_ns, runs_mult, clk, start, from, batch_time,
                   total_time, result, fn_hist, call_cost, stall, ncalls, all_time, to_time>>

\* lines 161-199: the checkpoint
Resize ==
    /\ pc = "check"
    /\ total_time > to_time
    /\ ~(total_time > max_time_ns)
    /\ stats' = Checkpoint(stats, total_time, max_time_ns, batch_time_ns,
                           min_batch_size, min_end_checks)
    /\ to_time' = max_time_ns
    /\ kept_lo' = 0 /\ kept_hi' = 0 /\ kept_warm' = 0
    /\ kept_calls' = 0 /\ kept_time' = 0
    /\ checkpoints' = checkpoints + 1
    /\ NextBatch
    /\ UNCHANGED <<bench, params, batch_time_ns, runs_mult, clk, start, from, batch_time,
                   total_time, result, fn_hist, call_cost, stall, ncalls, all_time>>

\* lines 202 and 350: the statistics are returned and reduced
Process ==
    /\ pc = "done"
    /\ \E rm \in (IF calib = 2 THEN {runs_mult} ELSE 0..MaxRunsMult) :
        /\ runs_mult' = rm
        /\ result' = ProcessStats(stats, rm)
    /\ pc' = "processed"
    /\ UNCHANGED <<bench, params, batch_time_ns, clk, start, from, to_time, stats, i, reject,
                   batch_time, total_time, hist>>

Next == Abort \/ Start \/ Call \/ Measure \/ Continue \/ Finish \/ Resize \/ Process

Spec == Init /\ [][Next]_vars

\* ---- calculate_clock_stats and benchmark --------------------------------
\* lines 312-316: calculate_clock_stats(n) is entered
EnterClockStats(n) ==
    /\ runs' = n
    /\ ci' = 0
    /\ sum' = 0
    /\ cstats' = InitialClockStats
    /\ d_lo' = 0 /\ d_hi' = 0 /\ d_sum' = 0
    /\ pc' = "clock"

\* lines 317-329: one iteration of the loop of calculate_clock_stats
ClockSample ==
    /\ pc = "clock"
    /\ ci < runs
    /\ \E diff \in (IF tick = -1 THEN 0..MaxDelta ELSE {tick}) :
        /\ clk' = clk + diff
        /\ sum' = sum + diff
        /\ cstats' = ClockAccumulate(cstats, diff)
        /\ d_lo' = (IF ci = 0 \/ diff < d_lo THEN diff ELSE d_lo)
        /\ d_hi' = (IF ci = 0 \/ diff > d_hi THEN diff ELSE d_hi)
        /\ d_sum' = d_sum + diff
    /\ ci' = ci + 1
    /\ UNCHANGED <<pc, runs, tick, max_time_ms, warm_up_ms, batch_of_clock_accuarcy_multiple,
                   clock_stats, calib, first_average, gather, runs_mult, hist>>

\* lines 331-335, and what the caller does with the result: a direct call
\* returns it, line 343 throws it away, line 344 keeps it in clock_stats
ClockReturn ==
    /\ pc = "clock"
    /\ ~(ci < runs)
    /\ cstats' = [cstats EXCEPT !.average = ClockAverage(sum, runs)]
    /\ pc' = (IF calib = 0 THEN "returned" ELSE IF calib = 1 THEN "bench2" ELSE "bench3")
    /\ first_average' = (IF calib = 1 THEN cstats'.average ELSE first_average)
    /\ clock_stats' = (IF calib = 2 THEN cstats' ELSE clock_stats)
    /\ UNCHANGED <<runs, ci, sum, tick, d_lo, d_hi, d_sum, max_time_ms, warm_up_ms,
                   batch_of_clock_accuarcy_multiple, calib, clk, gather, runs_mult, hist>>

\* lines 353-357: the overload without warm_up_ms
Overload ==
    /\ pc = "overload"
    /\ warm_up_ms' = CDiv(max_time_ms, 20) + 1
    /\ pc' = "bench"
    /\ UNCHANGED <<max_time_ms, batch_of_clock_accuarcy_multiple, clock, clock_stats, calib,
                   first_average, clk, gather, runs_mult, hist>>

\* line 343: the calibration that warms up; the stub clock has one delta per calibration
BenchWarmUp ==
    /\ pc = "bench"
    /\ calib' = 1
    /\ tick' \in 0..MaxDelta
    /\ EnterClockStats(100)
    /\ UNCHANGED <<max_time_ms, warm_up_ms, batch_of_clock_accuarcy_multiple, clock_stats,
                   first_average, clk, gather, runs_mult, hist>>

\* line 344: the calibration that counts
BenchCalibrate ==
    /\ pc = "bench2"
    /\ calib' = 2
    /\ tick' \in 0..MaxDelta
    /\ EnterClockStats(1000)
    /\ UNCHANGED <<max_time_ms, warm_up_ms, batch_of_clock_accuarcy_multiple, clock_stats,
                   first_average, clk, gather, runs_mult, hist>>

\* BenchGather with the average of the first calibration as the clock average
BenchGather_FirstAverage ==
    /\ pc = "bench3"
    /\ max_time_ns' = max_time_ms * MILISECOND_NANOSECONDS
    /\ warm_up_ns' = warm_up_ms * MILISECOND_NANOSECONDS
    /\ batch_time_ns' = batch_of_clock_accuarcy_multiple * first_average
    /\ min_batch_size' = 1
    /\ min_end_checks' = 5
    /\ pc' = "start"
    /\ UNCHANGED <<bench, runs_mult, clk, start, from, to_time, stats, i, reject,
                   batch_time, total_time, result, hist>>

\* lines 345-348: gather_bench_stats is called, with its default
\* min_batch_size and min_end_checks (lines 102-103)
BenchGather ==
    /\ pc = "bench3"
    /\ max_time_ns' = max_time_ms * MILISECOND_NANOSECONDS
    /\ warm_up_ns' = warm_up_ms * MILISECOND_NANOSECONDS
    /\ batch_time_ns' = batch_of_clock_accuarcy_multiple * clock_stats.average
    /\ min_batch_size' = 1
    /\ min_end_checks' = 5
    /\ pc' = "start"
    /\ UNCHANGED <<bench, runs_mult, clk, start, from, to_time, stats, i, reject,
                   batch_time, total_time, result, hist>>

\* calculate_clock_stats(runs) is called with any runs > 0
InitClock ==
    /\ pc = "clock"
    /\ runs \in 1..MaxRuns
    /\ tick \in -1..MaxDelta
    /\ ci = 0 /\ sum = 0
    /\ cstats = InitialClockStats
    /\ d_lo = 0 /\ d_hi = 0 /\ d_sum = 0
    /\ clk \in StartTimes
    /\ NoBench
    /\ max_time_ns = 0 /\ warm_up_ns = 0 /\ batch_time_ns = 0
    /\ min_batch_size = 0 /\ min_end_checks = 0
    /\ runs_mult = 1
    /\ NoRun

NextClock == ClockSample \/ ClockReturn

SpecClock == InitClock /\ [][NextClock]_vars

\* benchmark is called, through either overload
InitBench ==
    /\ pc \in {"overload", "bench"}
    /\ max_time_ms \in BenchTimesMs
    /\ warm_up_ms \in (IF pc = "overload" THEN {0} ELSE 0..MaxWarmMs)
    /\ batch_of_clock_accuarcy_multiple \in 0..MaxMultiple
    /\ runs_mult \in 0..MaxRunsMult
    /\ clock_stats = NoClockStats
    /\ calib = 0
    /\ first_average = 0
    /\ NoClock /\ tick = -1
    /\ clk \in StartTimes
    /\ max_time_ns = 0 /\ warm_up_ns = 0 /\ batch_time_ns = 0
    /\ min_batch_size = 0 /\ min_end_checks = 0
    /\ NoRun

NextBench ==
    \/ Overload \/ BenchWarmUp \/ ClockSample \/ ClockReturn \/ BenchCalibrate
    \/ BenchGather \/ Abort \/ Start \/ Call \/ Measure \/ Continue \/ Finish
    \/ Resize \/ Process

SpecBench == InitBench /\ [][NextBench]_vars

\* gather_bench_stats is called with arguments that pass lines 106-108, and
\* its accumulators have the integer type of WordBits bits
InitWidth ==
    /\ pc = "start"
    /\ max_time_ns    \in 1..MaxTime
    /\ warm_up_ns     \in 0..MaxTime
    /\ batch_time_ns  = 1
    /\ min_batch_size \in 1..MaxMinBatch
    /\ min_end_checks = 1
    /\ clk \in StartTimes
    /\ runs_mult = 1
    /\ NoRun
    /\ NoClock /\ tick = -1
    /\ NoBench

NextWidth == Start \/ Call \/ MeasureWrapping \/ Continue \/ Finish \/ Resize

SpecWidth == InitWidth /\ [][NextWidth]_vars


\* ---- derived notions ----------------------------------------------------
\* gather_bench_stats is past line 128
Running == pc \in {"calls", "measure", "check", "done", "processed"}

\* the checkpoint of lines 167-198 has been executed
CheckpointPassed == Running /\ to_time # FirstDeadline(warm_up_ns, max_time_ns)

\* the result is the one of a run without any activity
ZeroResult(r) ==
    /\ r.iters = 0
    /\ r.mean_ms.num = 0
    /\ SurdSign(r.min_ms) = 0
    /\ SurdSign(r.max_ms) = 0
    /\ r.deviation_sq.num = 0

\* ---- claims -------------------------------------------------------------

\* C1: process_stats, applied with runs_mult >= 1 to any statistics that
\* gather_bench_stats returns, fails none of its assertions and returns
\* 0 <= min_ms <= mean_ms <= max_ms, deviation_ms >= 0, batch_size >= 0 and
\* iters >= 0.
C1_ResultPlausible ==
    (pc = "processed" /\ runs_mult >= 1) =>
        /\ result.failed = {}
        /\ SurdSign(result.min_ms) >= 0
        /\ SurdLeqRat(result.min_ms, result.mean_ms)
        /\ SurdGeqRat(result.max_ms, result.mean_ms)
        /\ result.mean_ms.num >= 0
        /\ result.deviation_sq.num >= 0
        /\ result.batch_size >= 0
        /\ result.iters >= 0

\* every batch after the checkpoint was rejected, and the estimate is not 0
C1_Witness ==
    /\ pc = "processed" /\ runs_mult >= 1
    /\ stats.batch_count = 0 /\ stats.mean_time_estimate > 0
    /\ result.failed = {}

\* C2 (as claimed): with 0 < warm_up_ns < max_time_ns, the returned
\* statistics hold no batch that ended at a total time <= warm_up_ns.
C2_WarmUpDiscarded ==
    (pc = "done" /\ 0 < warm_up_ns /\ warm_up_ns < max_time_ns) => kept_warm = 0

\* C3: a rejected batch leaves the accumulators alone, its duration is part
\* of the total elapsed time, and what the deadline checks do depends on the
\* times only, not on whether the batch was kept.
C3_RejectedBatchFrame ==
    [][ /\ (pc = "measure" /\ reject # 0) =>
              /\ stats' = stats
              /\ batch_time' = clk - from
              /\ total_time' = total_time + batch_time'
        /\ pc = "check" =>
              /\ (pc' = "done") <=> (total_time > to_time /\ total_time > max_time_ns)
              /\ (total_time > to_time /\ total_time <= max_time_ns) =>
                    (pc' = "calls" /\ to_time' = max_time_ns /\ stats'.batch_count = 0)
              /\ (total_time <= to_time) =>
                    (pc' = "calls" /\ to_time' = to_time /\ stats' = stats)
      ]_vars

\* a rejected batch that took time, after a kept one, passes the warm-up deadline
C3_Witness ==
    /\ pc = "check" /\ reject # 0 /\ batch_time > 0
    /\ stats.batch_count > 0
    /\ total_time > to_time /\ total_time <= max_time_ns

\* C4: when every call rejects, the loop ends with batch_count = 0 and
\* process_stats returns the zero-activity result without failing.
C4_AllRejected ==
    /\ (pc \in {"done", "processed"} /\ fn_hist = "reject") => stats.batch_count = 0
    /\ (pc = "processed" /\ fn_hist = "reject") =>
            (result.failed = {} /\ ZeroResult(result))

\* all calls rejected, the checkpoint was passed, and the result is reduced
C4_Witness ==
    /\ pc = "processed" /\ fn_hist = "reject"
    /\ CheckpointPassed /\ stats.mean_time_estimate = 0
    /\ runs_mult >= 1

\* C5: a batch is timed only after all batch_size calls, and it is left out
\* of the statistics exactly when one of its calls returned false.
C5_RejectIffAnyFalse ==
    [][ pc = "measure" =>
            /\ i = stats.batch_size
            /\ (reject # 0) <=> any_false
            /\ (stats'.batch_count = stats.batch_count) <=> any_false
            /\ (stats'.batch_count = stats.batch_count + 1) <=> ~any_false
      ]_vars

\* a batch of several calls, with a false among them, is about to be timed
C5_Witness ==
    /\ pc = "measure" /\ any_false /\ fn_hist = "mixed"
    /\ stats.batch_size >= 2 /\ i = stats.batch_size

\* C6: gather_bench_stats terminates.  Inside the loop a step is always
\* possible, the inner loop runs towards batch_size, a batch begins only
\* while the total elapsed time is within max_time_ns, and every batch either
\* advances the total elapsed time or uses up one of the at most MaxStall
\* batches during which the clock stands still: the loop is left after at
\* most max_time_ns + MaxStall + 1 batches, whatever the calls return and
\* whatever warm_up_ns, the noise floor, min_batch_size and min_end_checks are.
C6_Terminates ==
    /\ [](pc \in {"calls", "measure", "check"} =>
            /\ ENABLED Next
            /\ i <= stats.batch_size
            /\ stall <= MaxStall
            /\ pc \in {"calls", "measure"} => total_time <= max_time_ns
            /\ pc = "calls" => i < stats.batch_size)
    /\ [][ pc = "measure" =>
              \/ total_time' > total_time /\ stall' = stall
              \/ total_time' = total_time /\ stall' = stall + 1
         ]_vars

\* the loop is left after a checkpoint, with kept and rejected batches and
\* with a batch during which the clock stood still
C6_Witness ==
    /\ pc = "done" /\ CheckpointPassed /\ fn_hist = "mixed"
    /\ warm_up_ns > 0 /\ stall = MaxStall /\ stats.batch_size >= 2

\* C7: the loop is left only at a deadline check after a complete batch of
\* batch_size >= min_batch_size >= 1 calls, with the total elapsed time above
\* max_time_ns, and the first check that finds the total above max_time_ns
\* leaves it.
C7_StopsAtFirstCrossing ==
    [][ /\ (pc # "done" /\ pc' = "done") =>
              /\ pc = "check"
              /\ total_time > max_time_ns
              /\ total_time = clk - start
              /\ i = stats.batch_size /\ i >= min_batch_size /\ min_batch_size >= 1
        /\ (pc = "check" /\ total_time > max_time_ns) => pc' = "done"
        /\ (pc = "check" /\ total_time <= max_time_ns) => pc' = "calls"
      ]_vars

\* one batch, longer than the whole time budget
C7_Witness ==
    /\ pc = "done" /\ batch_time = total_time
    /\ max_time_ns > 0 /\ batch_time > max_time_ns

\* C8: when the batches in the statistics all took the same time, the
\* variance numerator batch_count * squared_time_sum - time_sum^2 is 0 and
\* the deviation is 0; the deviation is 0 too when batch_count <= 1.
C8_ZeroVariance ==
    /\ (Running /\ stats.batch_count >= 1 /\ kept_lo = kept_hi) =>
            stats.batch_count * stats.squared_time_sum
                - stats.time_sum * stats.time_sum = 0
    /\ (pc = "processed" /\ (stats.batch_count <= 1 \/ kept_lo = kept_hi)) =>
            result.deviation_sq.num = 0

\* several batches of one duration, measured against an estimate that is not 0
C8_Witness ==
    /\ pc = "processed" /\ stats.batch_count >= 2
    /\ kept_lo = kept_hi /\ kept_lo > 0
    /\ stats.mean_time_estimate > 0 /\ stats.time_sum # 0
    /\ result.deviation_sq.num = 0

\* every call so far was kept and took the same c >= 1 ns on the clock
ConstantCost == fn_hist = "keep" /\ call_cost >= 1

\* C9: with calls that are all kept and all take c ns, min_batch_size = 1
\* and runs_mult = 1, the reduced mean, min and max are c ns per call.
C9_ConstantCostRecovered ==
    (pc = "processed" /\ ConstantCost /\ min_batch_size = 1 /\ runs_mult = 1) =>
        LET c_ms == Rat(call_cost, MILISECOND_NANOSECONDS)
        IN  /\ RatEq(result.mean_ms, c_ms)
            /\ SurdEqRat(result.min_ms, c_ms)
            /\ SurdEqRat(result.max_ms, c_ms)

\* constant cost, and the checkpoint chose a batch size above 1
C9_Witness ==
    /\ pc = "processed" /\ ConstantCost /\ min_batch_size = 1 /\ runs_mult = 1
    /\ CheckpointPassed /\ stats.batch_size >= 2 /\ stats.batch_count >= 1
    /\ RatEq(result.mean_ms, Rat(call_cost, MILISECOND_NANOSECONDS))

\* the noise floors passed to gather_bench_stats
Floors == -1..(MaxFloor + 1)

\* the batch size that the checkpoint chooses in this state for noise floor f
ResizedFor(f) ==
    ResizedBatchSize(stats, total_time, max_time_ns, ClampFloor(f),
                     min_batch_size, min_end_checks)

\* the check at line 161 is about to run the checkpoint
AtCheckpoint == pc = "check" /\ total_time > to_time /\ total_time <= max_time_ns

\* C10: of two runs that are alike up to the checkpoint and differ in the
\* noise floor only, the one with the larger noise floor gets the larger or
\* equal batch_size at the checkpoint, and keeps it until the loop is left.
C10_BatchSizeMonotone ==
    [][ /\ AtCheckpoint =>
              /\ stats'.batch_size = ResizedFor(batch_time_ns)
              /\ \A f1, f2 \in Floors : f1 <= f2 => ResizedFor(f1) <= ResizedFor(f2)
        /\ (CheckpointPassed \/ pc \in {"calls", "measure"}) =>
              stats'.batch_size = stats.batch_size
      ]_vars

\* a checkpoint at which the noise floor makes a difference
C10_Witness == AtCheckpoint /\ ResizedFor(1) < ResizedFor(MaxFloor)

\* C11 (as claimed): a run with noise floor 0, which line 111 turns into the
\* run with batch_time_ns = 1, has batch_size = min_batch_size in every
\* state, whatever the batch durations are.
C11_NoBatching ==
    (Running /\ batch_time_ns = ClampFloor(0)) => stats.batch_size = min_batch_size

\* C12 (as claimed): when every call is kept and takes the same c >= 1 ns,
\* every batch timed after the checkpoint took batch_size * c ns, and that is
\* at least the noise floor batch_time_ns.
C12_BatchAboveFloor ==
    (pc = "check" /\ CheckpointPassed /\ ConstantCost) =>
        /\ batch_time = stats.batch_size * call_cost
        /\ batch_time >= batch_time_ns

\* C13 (as claimed): when every call is kept and takes the same c >= 1 ns
\* and the checkpoint was run, the loop is left only after at least
\* min_end_checks batches were timed (and checked against the deadline)
\* since the checkpoint; all of them are kept, so batch_count counts them.
C13_EndChecks ==
    (pc = "done" /\ CheckpointPassed /\ ConstantCost) =>
        stats.batch_count >= min_end_checks

\* C14: calculate_clock_stats(runs) with runs > 0 returns the smallest and
\* the largest of its runs deltas as min and max, and as average the integer
\* quotient of their sum by runs, with 1 in place of a quotient of 0; when
\* all deltas are the same d > 0, average, min and max are d.
C14_ClockStats ==
    pc = "returned" =>
        /\ ci = runs
        /\ cstats.min = d_lo
        /\ cstats.max = d_hi
        /\ cstats.average = (IF d_sum \div runs = 0 THEN 1 ELSE d_sum \div runs)
        /\ cstats.average # 0
        /\ (d_lo = d_hi /\ d_lo > 0) =>
                (cstats.average = d_lo /\ cstats.min = d_lo /\ cstats.max = d_lo)

\* several deltas, not all the same, whose sum is less than runs
C14_Witness ==
    /\ pc = "returned" /\ runs >= 3
    /\ d_lo = 0 /\ d_hi >= 1 /\ d_sum < runs
    /\ cstats.average = 1

\* benchmark has not yet called gather_bench_stats
Calibrating == pc \in {"overload", "bench", "clock", "bench2", "bench3"}

\* the average that calculate_clock_stats returns for the deltas of its last call
AverageOfDeltas == IF d_sum \div runs = 0 THEN 1 ELSE d_sum \div runs

\* C15: benchmark runs a calibration of 100 samples and throws its result
\* away, then a calibration of 1000 samples, then gather_bench_stats with
\* max_time_ms * 10^6, warm_up_ms * 10^6 and the multiple times the average
\* of the second calibration, then process_stats with runs_mult; it calls
\* measured_fn only after both calibrations; the overload without warm_up_ms
\* passes max_time_ms / 20 + 1.
C15_BenchmarkOrder ==
    /\ [](/\ Calibrating => (ncalls = 0 /\ fn_hist = "none" /\ stats = NoStats)
          /\ pc = "bench2" => (runs = 100 /\ ci = 100 /\ clock_stats = NoClockStats)
          /\ pc = "bench3" => (runs = 1000 /\ ci = 1000 /\ clock_stats = cstats
                                /\ clock_stats.average = AverageOfDeltas)
          /\ (~Calibrating /\ pc # "returned") =>
                /\ calib = 2
                /\ max_time_ns = max_time_ms * 1000000
                /\ warm_up_ns = warm_up_ms * 1000000
                /\ pc = "start" =>
                      batch_time_ns = batch_of_clock_accuarcy_multiple * AverageOfDeltas)
    /\ [][ /\ pc = "overload" =>
                /\ pc' = "bench"
                /\ max_time_ms' = max_time_ms
                /\ warm_up_ms' = 1 + (IF max_time_ms >= 0 THEN max_time_ms \div 20
                                      ELSE -((-max_time_ms) \div 20))
           /\ pc = "bench" => (pc' = "clock" /\ runs' = 100 /\ ci' = 0)
           /\ pc = "bench2" => (pc' = "clock" /\ runs' = 1000 /\ ci' = 0)
           /\ pc = "bench3" => pc' = "start"
           /\ pc = "done" =>
                (pc' = "processed" /\ runs_mult' = runs_mult
                    /\ result' = ProcessStats(stats, runs_mult))
         ]_vars

\* a call through the overload without warm_up_ms has returned; its two
\* calibrations gave different averages
C15_Witness ==
    /\ pc = "processed"
    /\ max_time_ms = 45 /\ warm_up_ms = 3
    /\ first_average # clock_stats.average
    /\ batch_of_clock_accuarcy_multiple = 2 /\ batch_time_ns = 2 * clock_stats.average
    /\ runs_mult = 2 /\ result.iters = 2 * stats.batch_size * stats.batch_count
    /\ stats.batch_count >= 1

\* C16 (as claimed): a call of gather_bench_stats with max_time_ns < 0,
\* warm_up_ns < 0, min_batch_size <= 0 or min_end_checks <= 0 fails at its
\* entry: it never enters the loop, never calls measured_fn and returns no
\* statistics.
C16_PreconditionsFatal ==
    (max_time_ns < 0 \/ warm_up_ns < 0 \/ min_batch_size <= 0 \/ min_end_checks <= 0) =>
        (pc \in {"start", "abort"} /\ fn_hist = "none" /\ stats = NoStats)

\* C17 (as claimed): with runs_mult = 1 the iters that benchmark returns is
\* the number of calls of measured_fn made during that call of benchmark.
C17_ItersCountsAllCalls ==
    (pc = "processed" /\ calib = 2 /\ runs_mult = 1) => result.iters = ncalls

\* C18: process_stats returns batch_size = stats.batch_size * runs_mult and
\* iters = that batch_size * stats.batch_count; the batches in the statistics
\* of gather_bench_stats were all run with the final batch_size, so iters is
\* runs_mult times the number of calls made in them.
C18_ItersOfKeptBatches ==
    /\ Running => kept_calls = stats.batch_size * stats.batch_count
    /\ pc = "processed" =>
          /\ result.batch_size = stats.batch_size * runs_mult
          /\ result.iters = result.batch_size * stats.batch_count
          /\ result.iters = runs_mult * kept_calls

\* kept and rejected batches, a checkpoint that changed the batch size, and
\* a multiplier
C18_Witness ==
    /\ pc = "processed" /\ runs_mult = 2
    /\ CheckpointPassed /\ stats.batch_size > min_batch_size
    /\ stats.batch_count >= 2 /\ fn_hist = "mixed"
    /\ result.iters = 2 * kept_calls

\* C19: in every state of the loop, the initial one and the one after the
\* reset at the checkpoint included,
\* min_batch_time * batch_count <= time_sum <= max_batch_time * batch_count,
\* and the two assertions at the entry of process_stats hold.
C19_SumBetweenMinAndMax ==
    /\ Running =>
          /\ stats.min_batch_time * stats.batch_count <= stats.time_sum
          /\ stats.time_sum <= stats.max_batch_time * stats.batch_count
    /\ pc = "processed" => result.failed \cap {210, 211} = {}

\* after the checkpoint every kept batch was shorter than the estimate:
\* max_batch_time is still its initial 0
C19_Witness ==
    /\ pc = "processed"
    /\ stats.batch_count >= 2 /\ stats.time_sum < 0
    /\ stats.max_batch_time = 0 /\ stats.min_batch_time < 0
    /\ result.failed \cap {210, 211} = {}

\* C20: in every state of gather_bench_stats batch_size >= min_batch_size >= 1
\* and batch_count >= 0, and the checkpoint chooses a batch_size that is at
\* least min_batch_size.
C20_BatchSizeAtLeastMin ==
    /\ [](Running =>
            /\ stats.batch_size >= min_batch_size
            /\ min_batch_size >= 1
            /\ stats.batch_count >= 0)
    /\ [][AtCheckpoint => stats'.batch_size >= min_batch_size]_vars

\* a checkpoint without any retained warm-up batch, whose quotient is below
\* min_batch_size
C20_Witness ==
    /\ pc = "calls" /\ i = 0 /\ CheckpointPassed
    /\ stats.batch_count = 0 /\ fn_hist = "reject"
    /\ total_time < max_time_ns
    /\ min_batch_size = MaxMinBatch /\ stats.batch_size = min_batch_size

\* C21 (as claimed): whenever the statistics hold a batch, min_batch_time is
\* the smallest and max_batch_time the largest delta (duration minus
\* mean_time_estimate) of the batches kept since the last reset.
C21_MinMaxAreExtremeDeltas ==
    (Running /\ stats.batch_count >= 1) =>
        /\ stats.min_batch_time = kept_lo - stats.mean_time_estimate
        /\ stats.max_batch_time = kept_hi - stats.mean_time_estimate

\* C22: no integer division has a zero divisor.  The divisors are runs
\* (line 331), the noise floor after lines 110-111 (line 178), the call
\* count and the denominator of the checkpoint (lines 175, 188), and in
\* process_stats the batch count and its predecessor (line 227), the two
\* products of lines 245-247, which are used only when iters # 0, and
\* the radicand of line 271.
C22_NoDivisionByZero ==
    /\ pc = "clock" => runs # 0
    /\ Running => batch_time_ns # 0
    /\ AtCheckpoint =>
        /\ CheckpointIters(stats) # 0
        /\ CheckpointDen(total_time,
                         NumChecks(max_time_ns - total_time, batch_time_ns,
                                   min_end_checks)) # 0
    /\ pc = "done" =>
        \A rm \in 0..MaxRunsMult :
            LET batch_size == stats.batch_size * rm
                iters      == batch_size * stats.batch_count
            IN  /\ stats.batch_count > 1 =>
                    stats.batch_count # 0 /\ stats.batch_count - 1 # 0
                /\ iters # 0 =>
                    /\ iters * MILISECOND_NANOSECONDS # 0
                    /\ batch_size * MILISECOND_NANOSECONDS # 0
                /\ (IF batch_size = 0 THEN 1 ELSE batch_size) # 0

\* the checkpoint after a warm-up without any kept batch, in a benchmark
\* with a noise floor multiple of 0 and runs_mult = 0
C22_Witness ==
    /\ AtCheckpoint
    /\ calib = 2
    /\ stats.batch_count = 0
    /\ batch_of_clock_accuarcy_multiple = 0
    /\ runs_mult = 0

\* the larger of two integers
Max(a, b) == IF a >= b THEN a ELSE b

\* C23: the step taken at the checkpoint (warm_up_ns < total_time <=
\* max_time_ns) sets mean_time_estimate = time_sum / C and batch_size =
\* max(min_batch_size, (C * remaining) / (total_time * num_checks)), where
\* C = max(batch_count * batch_size, 1) before the reset, remaining =
\* max_time_ns - total_time, num_checks = max(remaining / batch_time_ns,
\* min_end_checks), and every division is the integer division.
C23_CheckpointFormulas ==
    [][ (AtCheckpoint /\ warm_up_ns < total_time /\ total_time <= max_time_ns) =>
            LET C          == Max(stats.batch_count * stats.batch_size, 1)
                remaining  == max_time_ns - total_time
                num_checks == Max(CDiv(remaining, batch_time_ns), min_end_checks)
            IN  /\ stats'.mean_time_estimate = CDiv(stats.time_sum, C)
                /\ stats'.batch_size =
                       Max(min_batch_size,
                           CDiv(C * remaining, total_time * num_checks)) ]_vars

\* after a checkpoint that found two calls per batch and a nonzero
\* estimate, with time remaining
C23_Witness ==
    /\ pc = "calls" /\ i = 0 /\ CheckpointPassed
    /\ stats.batch_count = 0
    /\ min_batch_size = 2
    /\ stats.mean_time_estimate >= 1
    /\ total_time < max_time_ns

\* C24: when warm_up_ns <= 0 or warm_up_ns > max_time_ns, the deadline is
\* max_time_ns from the start, the checkpoint is never taken, batch_size
\* stays min_batch_size and mean_time_estimate stays 0, and the statistics
\* hold every kept batch since the start: all calls made in kept batches,
\* the shortest and the longest of these batches.
C24_NoWarmUpPhase ==
    (Running /\ (warm_up_ns <= 0 \/ warm_up_ns > max_time_ns)) =>
        /\ to_time = max_time_ns
        /\ ~AtCheckpoint
        /\ stats.batch_size = min_batch_size
        /\ stats.mean_time_estimate = 0
        /\ stats.batch_count * min_batch_size = kept_calls
        /\ stats.batch_count >= 1 =>
              stats.min_batch_time = kept_lo /\ stats.max_batch_time = kept_hi

\* a run with warm_up_ns > max_time_ns returns after kept and rejected
\* batches
C24_Witness ==
    /\ pc = "done"
    /\ warm_up_ns > max_time_ns
    /\ fn_hist = "mixed"
    /\ stats.batch_count >= 2

\* C25 (as claimed): squared_time_sum is never negative when delta * delta
\* and the running sum are computed in the integer type with wrap-around.
C25_SquaredSumNonNegative == Running => stats.squared_time_sum >= 0

\* C26: lines 167-198 run at most once in a run, and leave the deadline at
\* max_time_ns; batch_size and mean_time_estimate change only there, at a
\* step that empties the statistics, and never at the step that measures a
\* batch; so every batch added to the statistics was run with the
\* batch_size and measured against the mean_time_estimate that are returned.
C26_OneCheckpoint ==
    [][ /\ checkpoints' <= 1
        /\ checkpoints' # checkpoints =>
              /\ AtCheckpoint
              /\ to_time' = max_time_ns
        /\ (Running /\ (stats'.batch_size # stats.batch_size
                        \/ stats'.mean_time_estimate # stats.mean_time_estimate)) =>
              /\ pc = "check" /\ checkpoints = 0 /\ checkpoints' = 1
              /\ stats'.batch_count = 0
        /\ (pc = "measure" /\ stats'.batch_count # stats.batch_count) =>
              /\ i = stats'.batch_size
              /\ stats'.time_sum - stats.time_sum
                     = batch_time' - stats'.mean_time_estimate
        /\ (pc = "check" /\ checkpoints = 1 /\ total_time > to_time) => pc' = "done"
      ]_vars

\* a run returns after a checkpoint that changed both batch_size and
\* mean_time_estimate, with batches kept after it and a rejected batch
C26_Witness ==
    /\ pc = "done" /\ checkpoints = 1
    /\ stats.batch_size > min_batch_size
    /\ stats.mean_time_estimate >= 1
    /\ stats.batch_count >= 2
    /\ fn_hist = "mixed"

\* C27: after every batch the durations of all batches run since line 127,
\* kept or rejected, add up to total_time, each batch being timed from the
\* previous clock read, which only lines 127-128 and 135-138 take (the
\* checkpoint takes none, so its time falls into the next batch); and
\* time_sum + mean_time_estimate * batch_count is the summed duration of
\* the batches in the statistics and never exceeds total_time.
C27_NoGaps ==
    /\ [](/\ pc \in {"check", "done", "processed"} => all_time = total_time
          /\ Running =>
                /\ stats.time_sum + stats.mean_time_estimate * stats.batch_count
                       = kept_time
                /\ kept_time <= total_time)
    /\ [][ /\ pc = "measure" => (batch_time' = clk - from /\ from' = clk)
           /\ (Running /\ pc # "measure") => from' = from ]_vars

\* a run returns with a checkpoint behind it, a nonzero estimate, kept and
\* rejected batches, and less time in the statistics than has elapsed
C27_Witness ==
    /\ pc = "done" /\ checkpoints = 1
    /\ stats.mean_time_estimate >= 1
    /\ stats.batch_count >= 2
    /\ fn_hist = "mixed"
    /\ kept_time < total_time

\* C28: in every state of gather_bench_stats, in exact integer arithmetic,
\* batch_count * squared_time_sum >= time_sum * time_sum; so the numerator
\* squared_time_sum - time_sum^2 / batch_count of line 227 is not negative
\* and equals its absolute value.
C28_VarianceNotNegative ==
    Running =>
        /\ stats.batch_count * stats.squared_time_sum >= stats.time_sum * stats.time_sum
        /\ stats.batch_count > 1 =>
              LET numerator == RatSub(Rat(stats.squared_time_sum, 1),
                                      Rat(stats.time_sum * stats.time_sum,
                                          stats.batch_count))
              IN  /\ numerator.num >= 0 /\ numerator.den > 0
                  /\ RatAbs(numerator) = numerator

\* process_stats has reduced batches of different durations that were kept
\* after a checkpoint and have a negative sum of deltas
C28_Witness ==
    /\ pc = "processed" /\ checkpoints = 1
    /\ stats.batch_count >= 2
    /\ kept_lo < kept_hi
    /\ stats.time_sum < 0
    /\ result.deviation_sq.num > 0

\* C29: when every call of measured_fn returned true, gather_bench_stats
\* returns batch_count >= 1, and process_stats with runs_mult >= 1 reports
\* iters > 0; whenever the last batch was not rejected, this batch, the
\* one that crossed max_time_ns, is in the returned statistics.
C29_ReturnsABatch ==
    /\ (pc \in {"done", "processed"} /\ fn_hist = "keep") => stats.batch_count >= 1
    /\ (pc = "processed" /\ fn_hist = "keep" /\ runs_mult >= 1) => result.iters > 0
    /\ (pc = "done" /\ reject = 0) =>
          /\ total_time > max_time_ns
          /\ stats.batch_count >= 1
          /\ kept_lo <= batch_time /\ batch_time <= kept_hi
          /\ kept_time >= batch_time

\* a run without rejections returns with the batch that crossed
\* max_time_ns as the only batch since the checkpoint
C29_Witness ==
    /\ pc = "done" /\ fn_hist = "keep"
    /\ checkpoints = 1
    /\ stats.batch_count = 1
    /\ total_time - batch_time <= max_time_ns

\* C30 (as claimed): the Clock_Stats that calculate_clock_stats returns has
\* min <= average <= max, whatever the deltas are.
C30_MinAverageMax ==
    pc = "returned" => (cstats.min <= cstats.average /\ cstats.average <= cstats.max)

\* C30 (amended): the Clock_Stats that calculate_clock_stats returns has
\* min <= average, and average <= max when some delta is not 0; when every
\* delta is 0, min = max = 0 and average = 1.
C30_MinAverageMaxUnlessAllZero ==
    pc = "returned" =>
        /\ cstats.min <= cstats.average
        /\ d_hi > 0 => cstats.average <= cstats.max
        /\ d_hi = 0 => (cstats.min = 0 /\ cstats.max = 0 /\ cstats.average = 1)

\* calculate_clock_stats returns after several deltas, all of them 0
C30_Witness ==
    /\ pc = "returned" /\ runs >= 2
    /\ d_hi = 0 /\ d_sum = 0

====
